---- MODULE Spec2Model ----
(***************************************************************************)
(* A model of util_module.c (src/example.c, lines 1-484): the fixed        *)
(* capacity byte ring buffer, the table driven CRC16-CCITT routine and the *)
(* module state the configuration calls touch (logger level, PRNG state,   *)
(* Welford accumulator).                                                   *)
(*                                                                         *)
(* Every public function is one action that models the whole call.  The    *)
(* variables whose names start with h_ and the variable last are history   *)
(* variables: they record what was called and what it returned, and no     *)
(* action reads them to decide what the program does.                      *)
(***************************************************************************)
EXTENDS Integers, Sequences, FiniteSets, TLC

(***************************************************************************)
(* Bounds of the model.                                                    *)
(***************************************************************************)
\* longest buffer handed to ring_push / largest len handed to ring_pop
MaxLen == 2
\* SpecRing: no ring_push call takes g_total_bytes_pushed beyond this value
MaxTotal == 2
\* Spec: no ring_push call takes g_total_bytes_pushed beyond this value
MaxModuleTotal == 1
\* module_self_test is not called once s_stats.n would pass this value
MaxSamples == 10
\* longest input of crc16_ccitt drawn from CrcBytes
MaxCrcLen == 1

(***************************************************************************)
(* Program constants.                                                      *)
(***************************************************************************)
\* sizeof(s_ring_storage)
StorageSize == 1024
\* log_level_t
LOG_SILENT == 0
LOG_ERROR == 1
LOG_WARN == 2
LOG_INFO == 3
LOG_DEBUG == 4
\* the initial value of g_config.ring_capacity
DefaultCapacity == 256
\* s_prng_state, a uint32_t kept as its two 16 bit halves: the initial value
\* 0x12345678, the value 0xCAFEBABE module_init stores, and the seed 0xDEADBEEF
\* module_self_test hands to srand32
PrngInitialHi == 4660
PrngInitialLo == 22136
PrngAfterInitHi == 51966
PrngAfterInitLo == 47806
SelfTestSeedHi == 57005
SelfTestSeedLo == 48879
\* the polynomial and the initial value of crc16_ccitt
CrcPoly == 4129
CrcInit == 65535

Uint8(x) == x % 256
Uint16(x) == x % 65536

(***************************************************************************)
(* Bit operations on naturals.                                             *)
(***************************************************************************)
RECURSIVE Xor(_, _)
Xor(a, b) ==
    IF a = 0 THEN b
    ELSE IF b = 0 THEN a
    ELSE (((a % 2) + (b % 2)) % 2) + (2 * Xor(a \div 2, b \div 2))

RECURSIVE Pow2(_)
Pow2(n) == IF n = 0 THEN 1 ELSE 2 * Pow2(n - 1)

Shl16(x, n) == Uint16(x * Pow2(n))
\* 32 bit values are records of two 16 bit halves (n <= 15 below)
Shl32(x, n) ==
    [hi |-> Uint16((x.hi * Pow2(n)) + (x.lo \div Pow2(16 - n))),
     lo |-> Uint16(x.lo * Pow2(n))]
Shr32By17(x) == [hi |-> 0, lo |-> x.hi \div 2]
Xor32(x, y) == [hi |-> Xor(x.hi, y.hi), lo |-> Xor(x.lo, y.lo)]
Shr(x, n) == x \div Pow2(n)

VARIABLES
    g_config,              \* module_config_t g_config (ring_capacity, log_level)
    g_total_bytes_pushed,  \* uint64_t; MaxTotal keeps both counters far below
    g_total_bytes_popped,  \*   2^64, where they would wrap
    s_ring_storage,        \* uint8_t s_ring_storage[1024]
    s_ring,                \* head, tail, capacity (uint16_t each)
    s_log_level,           \* log_level_t
    s_crc_table_ready,     \* bool
    s_crc16_table,         \* uint16_t s_crc16_table[256]
    s_prng_state,          \* uint32_t, as its halves hi and lo
    s_stats,               \* welford_t: n, mean and m2 (in quarters)
    trapped,               \* the process was killed by a division trap
    h_accepted,            \* bytes ring_push stored since the last successful
                           \*   configure or module_reset, in order
    h_delivered,           \* bytes ring_pop returned since then, in order
    h_dropped,             \* a successful configure call dropped queued bytes
                           \*   since the last module_reset
    h_table_builds,        \* runs of prv_crc16_build_table so far: 0, 1, or 2
                           \*   for two and more
    h_crc_since_init,      \* crc16_ccitt ran since the last successful module_init
    producer,              \* the thread in ring_push: where it is, data, len and
                           \*   pushed
    consumer,              \* the thread in ring_pop: where it is, len, popped and
                           \*   the bytes copied to out
    crc_call,              \* a crc16_ccitt call in progress: where it is, data
    last                   \* the last call: its arguments and what it returned

progVars ==
    <<g_config, g_total_bytes_pushed, g_total_bytes_popped, s_ring_storage, s_ring,
      s_log_level, s_crc_table_ready, s_crc16_table, s_prng_state, s_stats>>

histVars ==
    <<h_accepted, h_delivered, h_dropped, h_table_builds, h_crc_since_init>>

\* the calls in progress in the specifications that run a call statement by
\* statement; the other specifications run every call as one step
callVars == <<producer, consumer, crc_call>>

vars == <<progVars, trapped, histVars, last, callVars>>

(***************************************************************************)
(* Inputs.                                                                 *)
(***************************************************************************)
\* payload bytes of ring_push
Bytes == {1, 2}
\* requested capacities of a configure call
CapChoices == {0, 1, 2, 3, 1024, 1025, 65535}
\* those Spec requests
ModuleCapChoices == {0, 3, 1025, 65535}
\* log levels a configuration carries / log_set_level is given
CfgLevels == {LOG_WARN}
SetLevels == {LOG_ERROR}
\* bytes of the crc16_ccitt inputs, and the published check string "123456789"
CrcBytes == {0, 1, 128, 255}
CheckString == <<49, 50, 51, 52, 53, 54, 55, 56, 57>>

SeqsUpTo(S, n) == UNION {[1..k -> S] : k \in 0..n}

\* n bytes that start with b and alternate between the two payload bytes, so
\* that a byte lost, repeated or out of order shows in the stream
Alternating(b, n) == [i \in 1..n |-> IF i % 2 = 1 THEN b ELSE 3 - b]

\* a module_config_t pointer: NULL, or a configuration
NullCfg == [null |-> TRUE, ring_capacity |-> 0, log_level |-> LOG_SILENT]
Cfgs(capacities) ==
    {[null |-> FALSE, ring_capacity |-> c, log_level |-> l] :
        c \in capacities, l \in CfgLevels}
CfgArgs == {NullCfg} \cup Cfgs(CapChoices)
ModuleCfgArgs == {NullCfg} \cup Cfgs(ModuleCapChoices)

\* (data, len) of ring_push: a NULL pointer, or a buffer of len bytes
PushArgs ==
    {[null |-> TRUE, bytes |-> <<>>, len |-> n] : n \in {0, 1}}
    \cup {[null |-> FALSE, bytes |-> Alternating(b, n), len |-> n] :
            b \in Bytes, n \in 0..MaxLen}

\* (out, len) of ring_pop
PopArgs == [null : BOOLEAN, len : 0..MaxLen]

CrcArgs == SeqsUpTo(CrcBytes, MaxCrcLen) \cup {CheckString}

\* the ring calls of Spec, which runs every function of the module
ModulePushArgs == {[null |-> FALSE, bytes |-> <<1>>, len |-> 1]}
ModulePopArgs == {[null |-> FALSE, len |-> 1]}
ModuleCrcArgs == {<<>>, CheckString}

\* the calls of SpecSpsc
SpscCapChoices == {2, 3}
SpscPushArgs ==
    {[null |-> TRUE, bytes |-> <<>>, len |-> 1]}
    \cup {[null |-> FALSE, bytes |-> Alternating(1, n), len |-> n] : n \in 0..MaxLen}
SpscPopArgs == {[null |-> TRUE, len |-> 1]} \cup [null : {FALSE}, len : 0..MaxLen]

(***************************************************************************)
(* The record of the last call.                                            *)
(***************************************************************************)
NoCall ==
    [op |-> "none", null |-> FALSE, cap |-> 0, bytes |-> <<>>, len |-> 0,
     ret |-> 0, ok |-> FALSE, out |-> <<>>, built |-> FALSE]

(***************************************************************************)
(* Ring buffer helpers.                                                    *)
(***************************************************************************)
\* x % capacity as ring_push, ring_pop and prv_ring_full compute it.  With a
\* capacity of 0 the division is undefined: the call either traps (the actions
\* below then end the process) or the remainder is the dividend (hardware
\* whose divide instruction does not trap on a zero divisor).
ModCapacity(x, capacity) == IF capacity = 0 THEN x ELSE x % capacity

\* a wrong emptiness test: the head index at 0
prv_ring_empty_head_zero(ring) == ring.head = 0

prv_ring_empty(ring) == ring.head = ring.tail

\* a wrong fullness test: the modulo forgotten
prv_ring_full_no_wrap(ring) == ring.head + 1 = ring.tail

prv_ring_full(ring) == Uint16(ModCapacity(ring.head + 1, ring.capacity)) = ring.tail

\* a wrong capacity test: 0 let through
InvalidCapacity_zero_ok(c) == c > StorageSize

\* the test of module_init and module_set_config on the requested capacity
InvalidCapacity(c) == (c = 0) \/ (c > StorageSize)

\* a wrong push loop: every slot gets the first byte of data
RECURSIVE PushLoop_first_byte(_, _, _, _)
PushLoop_first_byte(ring, storage, data, pushed) ==
    IF pushed < Len(data) /\ ~prv_ring_full(ring)
    THEN PushLoop_first_byte(
             [ring EXCEPT !.head = Uint16(ModCapacity(ring.head + 1, ring.capacity))],
             [storage EXCEPT ![ring.head] = data[1]],
             data, pushed + 1)
    ELSE [ring |-> ring, storage |-> storage, n |-> pushed]

\* a wrong push loop: the fullness test comes after the first store
RECURSIVE PushLoop_store_first(_, _, _, _)
PushLoop_store_first(ring, storage, data, pushed) ==
    IF pushed < Len(data) /\ (pushed = 0 \/ ~prv_ring_full(ring))
    THEN PushLoop_store_first(
             [ring EXCEPT !.head = Uint16(ModCapacity(ring.head + 1, ring.capacity))],
             [storage EXCEPT ![ring.head] = data[pushed + 1]],
             data, pushed + 1)
    ELSE [ring |-> ring, storage |-> storage, n |-> pushed]

\* the loop of ring_push: pushed bytes of data are already stored
RECURSIVE PushLoop(_, _, _, _)
PushLoop(ring, storage, data, pushed) ==
    IF pushed < Len(data) /\ ~prv_ring_full(ring)
    THEN PushLoop([ring EXCEPT !.head = Uint16(ModCapacity(ring.head + 1, ring.capacity))],
                  [storage EXCEPT ![ring.head] = data[pushed + 1]],
                  data, pushed + 1)
    ELSE [ring |-> ring, storage |-> storage, n |-> pushed]

\* a wrong pop loop: the byte is read after tail has moved
RECURSIVE PopLoop_read_late(_, _, _, _)
PopLoop_read_late(ring, storage, len, out) ==
    IF Len(out) < len /\ ~prv_ring_empty(ring)
    THEN LET next == Uint16(ModCapacity(ring.tail + 1, ring.capacity))
         IN  PopLoop_read_late([ring EXCEPT !.tail = next], storage, len,
                               Append(out, storage[next]))
    ELSE [ring |-> ring, n |-> Len(out), out |-> out]

\* a wrong pop loop: one byte more than len is copied
RECURSIVE PopLoop_one_more(_, _, _, _)
PopLoop_one_more(ring, storage, len, out) ==
    IF Len(out) <= len /\ ~prv_ring_empty(ring)
    THEN PopLoop_one_more(
             [ring EXCEPT !.tail = Uint16(ModCapacity(ring.tail + 1, ring.capacity))],
             storage, len, Append(out, storage[ring.tail]))
    ELSE [ring |-> ring, n |-> Len(out), out |-> out]

\* the loop of ring_pop: out holds the bytes copied so far
RECURSIVE PopLoop(_, _, _, _)
PopLoop(ring, storage, len, out) ==
    IF Len(out) < len /\ ~prv_ring_empty(ring)
    THEN PopLoop([ring EXCEPT !.tail = Uint16(ModCapacity(ring.tail + 1, ring.capacity))],
                 storage, len, Append(out, storage[ring.tail]))
    ELSE [ring |-> ring, n |-> Len(out), out |-> out]

\* ring_push and ring_pop as functions of the ring they are called on
PushResult(ring, storage, arg) ==
    IF arg.null \/ arg.len = 0
    THEN [ring |-> ring, storage |-> storage, n |-> 0]
    ELSE PushLoop(ring, storage, arg.bytes, 0)

PopResult(ring, storage, arg) ==
    IF arg.null \/ arg.len = 0
    THEN [ring |-> ring, n |-> 0, out |-> <<>>]
    ELSE PopLoop(ring, storage, arg.len, <<>>)

\* the call evaluates x % 0
PushDividesByZero(ring, arg) == ~arg.null /\ arg.len # 0 /\ ring.capacity = 0

PopDividesByZero(ring, arg) ==
    ~arg.null /\ arg.len # 0 /\ ring.capacity = 0 /\ ~prv_ring_empty(ring)

(***************************************************************************)
(* CRC16-CCITT.                                                            *)
(***************************************************************************)
\* one pass of the inner loop of prv_crc16_build_table
CrcShift(crc) ==
    IF (crc \div 32768) % 2 = 1 THEN Xor(Shl16(crc, 1), CrcPoly) ELSE Shl16(crc, 1)

RECURSIVE CrcShifts(_, _)
CrcShifts(crc, b) == IF b = 0 THEN crc ELSE CrcShifts(CrcShift(crc), b - 1)

\* a wrong table: seven passes of the inner loop
prv_crc16_build_table_short == [i \in 0..255 |-> CrcShifts(Shl16(i, 8), 7)]

\* the table prv_crc16_build_table leaves in s_crc16_table
prv_crc16_build_table == [i \in 0..255 |-> CrcShifts(Shl16(i, 8), 8)]

\* the loop of crc16_ccitt over data[i..], with the table it reads
RECURSIVE CrcLoop(_, _, _, _)
CrcLoop(table, data, i, crc) ==
    IF i > Len(data) THEN crc
    ELSE CrcLoop(table, data, i + 1,
                 Xor(Shl16(crc, 8), table[Uint8(Xor(Shr(crc, 8), data[i]))]))

(***************************************************************************)
(* PRNG and statistics.                                                    *)
(***************************************************************************)
srand32(seed) == IF seed.hi # 0 \/ seed.lo # 0 THEN seed ELSE [hi |-> 0, lo |-> 1]

Xorshift13(x) == Xor32(x, Shl32(x, 13))
Xorshift17(x) == Xor32(x, Shr32By17(x))
Xorshift5(x) == Xor32(x, Shl32(x, 5))
\* the state rand32 leaves (and the value it returns)
rand32(x) == Xorshift5(Xorshift17(Xorshift13(x)))

\* s_stats keeps mean in quarters and m2 in sixteenths.  module_self_test is its
\* only writer besides module_init, and feeds it 0..9 from the zeroed state,
\* where every quotient below is exact (in the model and in double arithmetic).
StatsZero == [n |-> 0, mean |-> 0, m2 |-> 0]

stats_add_sample(st, x) ==
    LET n == st.n + 1
        delta == (4 * x) - st.mean
        mean == st.mean + (delta \div n)
        delta2 == (4 * x) - mean
    IN  [n |-> n, mean |-> mean, m2 |-> st.m2 + (delta * delta2)]

RECURSIVE StatsLoop(_, _, _)
StatsLoop(st, i, end) ==
    IF i >= end THEN st ELSE StatsLoop(stats_add_sample(st, i), i + 1, end)

\* "hello, ring"
SelfTestMsg == <<104, 101, 108, 108, 111, 44, 32, 114, 105, 110, 103>>
\* sizeof(buf) in module_self_test
SelfTestBufLen == 32

\* no call in progress
ProducerIdle == [pc |-> "idle", data |-> <<>>, len |-> 0, pushed |-> 0]
ConsumerIdle == [pc |-> "idle", len |-> 0, popped |-> 0, out |-> <<>>]
CrcIdle == [pc |-> "idle", data |-> <<>>, built |-> FALSE]

(***************************************************************************)
(* Initial state: the initialisers of the globals and statics.             *)
(***************************************************************************)
Init ==
    /\ g_config = [ring_capacity |-> DefaultCapacity, log_level |-> LOG_INFO]
    /\ g_total_bytes_pushed = 0
    /\ g_total_bytes_popped = 0
    /\ s_ring_storage = [i \in 0..(StorageSize - 1) |-> 0]
    /\ s_ring = [head |-> 0, tail |-> 0, capacity |-> 0]
    /\ s_log_level = LOG_INFO
    /\ s_crc_table_ready = FALSE
    /\ s_crc16_table = [i \in 0..255 |-> 0]
    /\ s_prng_state = [hi |-> PrngInitialHi, lo |-> PrngInitialLo]
    /\ s_stats = StatsZero
    /\ trapped = FALSE
    /\ h_accepted = <<>>
    /\ h_delivered = <<>>
    /\ h_dropped = FALSE
    /\ h_table_builds = 0
    /\ h_crc_since_init = FALSE
    /\ last = NoCall
    /\ producer = ProducerIdle
    /\ consumer = ConsumerIdle
    /\ crc_call = CrcIdle

\* the count of table builds after a call that did (or did not) build it
BuildsAfter(builds, build) == IF build /\ builds < 2 THEN builds + 1 ELSE builds

\* bytes accepted by ring_push and not yet returned by ring_pop
Queued == Len(h_accepted) - Len(h_delivered)

\* the process ends in a division trap inside the named call
Trap(op) ==
    /\ trapped' = TRUE
    /\ last' = [NoCall EXCEPT !.op = "trap", !.out = <<op>>]

(***************************************************************************)
(* The public functions.                                                   *)
(***************************************************************************)
module_init(cfg) ==
    LET use == IF cfg.null THEN g_config
               ELSE [ring_capacity |-> cfg.ring_capacity, log_level |-> cfg.log_level]
        call == [NoCall EXCEPT !.op = "module_init", !.null = cfg.null,
                               !.cap = use.ring_capacity]
    IN  /\ ~trapped
        /\ IF InvalidCapacity(use.ring_capacity)
           THEN /\ last' = [call EXCEPT !.ok = FALSE]
                /\ UNCHANGED <<progVars, histVars>>
           ELSE /\ g_config' = use
                /\ s_log_level' = use.log_level
                /\ s_ring' = [head |-> 0, tail |-> 0, capacity |-> use.ring_capacity]
                /\ s_crc_table_ready' = FALSE
                /\ s_prng_state' = [hi |-> PrngAfterInitHi, lo |-> PrngAfterInitLo]
                /\ s_stats' = StatsZero
                /\ h_accepted' = <<>>
                /\ h_delivered' = <<>>
                /\ h_dropped' = (h_dropped \/ Queued # 0)
                /\ h_crc_since_init' = FALSE
                /\ last' = [call EXCEPT !.ok = TRUE]
                /\ UNCHANGED <<g_total_bytes_pushed, g_total_bytes_popped,
                               s_ring_storage, s_crc16_table, h_table_builds>>
        /\ UNCHANGED trapped

\* a wrong module_set_config: the ring indices are reset before the checks
module_set_config_reset_first(cfg) ==
    LET call == [NoCall EXCEPT !.op = "module_set_config", !.null = cfg.null,
                               !.cap = cfg.ring_capacity]
    IN  /\ ~trapped
        /\ IF cfg.null \/ InvalidCapacity(cfg.ring_capacity)
           THEN /\ last' = [call EXCEPT !.ok = FALSE]
                /\ s_ring' = [s_ring EXCEPT !.head = 0, !.tail = 0]
                /\ UNCHANGED <<g_config, g_total_bytes_pushed, g_total_bytes_popped,
                               s_ring_storage, s_log_level, s_crc_table_ready,
                               s_crc16_table, s_prng_state, s_stats, histVars>>
           ELSE /\ g_config' = [ring_capacity |-> cfg.ring_capacity,
                                log_level |-> cfg.log_level]
                /\ s_log_level' = cfg.log_level
                /\ s_ring' = [head |-> 0, tail |-> 0, capacity |-> cfg.ring_capacity]
                /\ h_accepted' = <<>>
                /\ h_delivered' = <<>>
                /\ h_dropped' = (h_dropped \/ Queued # 0)
                /\ last' = [call EXCEPT !.ok = TRUE]
                /\ UNCHANGED <<g_total_bytes_pushed, g_total_bytes_popped,
                               s_ring_storage, s_crc_table_ready, s_crc16_table,
                               s_prng_state, s_stats, h_table_builds,
                               h_crc_since_init>>
        /\ UNCHANGED trapped

\* a wrong module_set_config: head and tail are kept
module_set_config_keeps_indices(cfg) ==
    LET call == [NoCall EXCEPT !.op = "module_set_config", !.null = cfg.null,
                               !.cap = cfg.ring_capacity]
    IN  /\ ~trapped
        /\ IF cfg.null \/ InvalidCapacity(cfg.ring_capacity)
           THEN /\ last' = [call EXCEPT !.ok = FALSE]
                /\ UNCHANGED <<progVars, histVars>>
           ELSE /\ g_config' = [ring_capacity |-> cfg.ring_capacity,
                                log_level |-> cfg.log_level]
                /\ s_log_level' = cfg.log_level
                /\ s_ring' = [s_ring EXCEPT !.capacity = cfg.ring_capacity]
                /\ h_accepted' = <<>>
                /\ h_delivered' = <<>>
                /\ h_dropped' = (h_dropped \/ Queued # 0)
                /\ last' = [call EXCEPT !.ok = TRUE]
                /\ UNCHANGED <<g_total_bytes_pushed, g_total_bytes_popped,
                               s_ring_storage, s_crc_table_ready, s_crc16_table,
                               s_prng_state, s_stats, h_table_builds,
                               h_crc_since_init>>
        /\ UNCHANGED trapped

module_set_config(cfg) ==
    LET call == [NoCall EXCEPT !.op = "module_set_config", !.null = cfg.null,
                               !.cap = cfg.ring_capacity]
    IN  /\ ~trapped
        /\ IF cfg.null \/ InvalidCapacity(cfg.ring_capacity)
           THEN /\ last' = [call EXCEPT !.ok = FALSE]
                /\ UNCHANGED <<progVars, histVars>>
           ELSE /\ g_config' = [ring_capacity |-> cfg.ring_capacity,
                                log_level |-> cfg.log_level]
                /\ s_log_level' = cfg.log_level
                /\ s_ring' = [head |-> 0, tail |-> 0, capacity |-> cfg.ring_capacity]
                /\ h_accepted' = <<>>
                /\ h_delivered' = <<>>
                /\ h_dropped' = (h_dropped \/ Queued # 0)
                /\ last' = [call EXCEPT !.ok = TRUE]
                /\ UNCHANGED <<g_total_bytes_pushed, g_total_bytes_popped,
                               s_ring_storage, s_crc_table_ready, s_crc16_table,
                               s_prng_state, s_stats, h_table_builds,
                               h_crc_since_init>>
        /\ UNCHANGED trapped

\* a wrong module_reset: g_total_bytes_popped is left
module_reset_keeps_popped ==
    /\ ~trapped
    /\ s_ring' = [s_ring EXCEPT !.head = 0, !.tail = 0]
    /\ g_total_bytes_pushed' = 0
    /\ h_accepted' = <<>>
    /\ h_delivered' = <<>>
    /\ h_dropped' = FALSE
    /\ last' = [NoCall EXCEPT !.op = "module_reset"]
    /\ UNCHANGED <<g_config, g_total_bytes_popped, s_ring_storage, s_log_level,
                   s_crc_table_ready, s_crc16_table, s_prng_state, s_stats,
                   h_table_builds, h_crc_since_init, trapped>>

module_reset ==
    /\ ~trapped
    /\ s_ring' = [s_ring EXCEPT !.head = 0, !.tail = 0]
    /\ g_total_bytes_pushed' = 0
    /\ g_total_bytes_popped' = 0
    /\ h_accepted' = <<>>
    /\ h_delivered' = <<>>
    /\ h_dropped' = FALSE
    /\ last' = [NoCall EXCEPT !.op = "module_reset"]
    /\ UNCHANGED <<g_config, s_ring_storage, s_log_level, s_crc_table_ready,
                   s_crc16_table, s_prng_state, s_stats, h_table_builds,
                   h_crc_since_init, trapped>>

log_set_level(level) ==
    /\ ~trapped
    /\ s_log_level' = level
    /\ last' = [NoCall EXCEPT !.op = "log_set_level", !.len = level]
    /\ UNCHANGED <<g_config, g_total_bytes_pushed, g_total_bytes_popped,
                   s_ring_storage, s_ring, s_crc_table_ready, s_crc16_table,
                   s_prng_state, s_stats, histVars, trapped>>

ring_push(arg) ==
    LET r == PushResult(s_ring, s_ring_storage, arg)
    IN  /\ ~trapped
        /\ \/ /\ PushDividesByZero(s_ring, arg)
              /\ Trap("ring_push")
              /\ UNCHANGED <<progVars, histVars>>
           \/ /\ s_ring' = r.ring
              /\ s_ring_storage' = r.storage
              /\ g_total_bytes_pushed' = g_total_bytes_pushed + r.n
              /\ h_accepted' = h_accepted \o SubSeq(arg.bytes, 1, r.n)
              /\ last' = [NoCall EXCEPT !.op = "ring_push", !.null = arg.null,
                                        !.bytes = arg.bytes, !.len = arg.len,
                                        !.ret = r.n]
              /\ UNCHANGED <<g_config, g_total_bytes_popped, s_log_level,
                             s_crc_table_ready, s_crc16_table, s_prng_state,
                             s_stats, h_delivered, h_dropped, h_table_builds,
                             h_crc_since_init, trapped>>

ring_pop(arg) ==
    LET r == PopResult(s_ring, s_ring_storage, arg)
    IN  /\ ~trapped
        /\ \/ /\ PopDividesByZero(s_ring, arg)
              /\ Trap("ring_pop")
              /\ UNCHANGED <<progVars, histVars>>
           \/ /\ s_ring' = r.ring
              /\ g_total_bytes_popped' = g_total_bytes_popped + r.n
              /\ h_delivered' = h_delivered \o r.out
              /\ last' = [NoCall EXCEPT !.op = "ring_pop", !.null = arg.null,
                                        !.len = arg.len, !.ret = r.n, !.out = r.out]
              /\ UNCHANGED <<g_config, g_total_bytes_pushed, s_ring_storage,
                             s_log_level, s_crc_table_ready, s_crc16_table,
                             s_prng_state, s_stats, h_accepted, h_dropped,
                             h_table_builds, h_crc_since_init, trapped>>

\* a wrong crc16_ccitt: s_crc_table_ready is never set
crc16_ccitt_flag_unset(data) ==
    LET build == ~s_crc_table_ready
        table == IF build THEN prv_crc16_build_table ELSE s_crc16_table
    IN  /\ ~trapped
        /\ s_crc16_table' = table
        /\ h_table_builds' = BuildsAfter(h_table_builds, build)
        /\ h_crc_since_init' = TRUE
        /\ last' = [NoCall EXCEPT !.op = "crc16_ccitt", !.bytes = data,
                                  !.len = Len(data), !.built = build,
                                  !.ret = CrcLoop(table, data, 1, CrcInit)]
        /\ UNCHANGED <<g_config, g_total_bytes_pushed, g_total_bytes_popped,
                       s_ring_storage, s_ring, s_log_level, s_crc_table_ready,
                       s_prng_state, s_stats, h_accepted, h_delivered, h_dropped,
                       trapped>>

crc16_ccitt(data) ==
    LET build == ~s_crc_table_ready
        table == IF build THEN prv_crc16_build_table ELSE s_crc16_table
    IN  /\ ~trapped
        /\ s_crc16_table' = table
        /\ s_crc_table_ready' = TRUE
        /\ h_table_builds' = BuildsAfter(h_table_builds, build)
        /\ h_crc_since_init' = TRUE
        /\ last' = [NoCall EXCEPT !.op = "crc16_ccitt", !.bytes = data,
                                  !.len = Len(data), !.built = build,
                                  !.ret = CrcLoop(table, data, 1, CrcInit)]
        /\ UNCHANGED <<g_config, g_total_bytes_pushed, g_total_bytes_popped,
                       s_ring_storage, s_ring, s_log_level, s_prng_state, s_stats,
                       h_accepted, h_delivered, h_dropped, trapped>>

\* module_self_test: module_reset, then a push of "hello, ring", a pop into a
\* 32 byte buffer, the CRC of what was popped, two PRNG draws after seeding,
\* and ten samples.  A trap in its ring_push leaves the reset done.
module_self_test ==
    LET msg == [null |-> FALSE, bytes |-> SelfTestMsg, len |-> Len(SelfTestMsg)]
        buf == [null |-> FALSE, len |-> SelfTestBufLen]
        ring0 == [s_ring EXCEPT !.head = 0, !.tail = 0]
        p == PushResult(ring0, s_ring_storage, msg)
        r == PopResult(p.ring, p.storage, buf)
        build == ~s_crc_table_ready
        table == IF build THEN prv_crc16_build_table ELSE s_crc16_table
        c == CrcLoop(table, r.out, 1, CrcInit)
    IN  /\ ~trapped
        /\ \/ /\ PushDividesByZero(ring0, msg)
              /\ Trap("module_self_test")
              /\ s_ring' = ring0
              /\ g_total_bytes_pushed' = 0
              /\ g_total_bytes_popped' = 0
              /\ h_accepted' = <<>>
              /\ h_delivered' = <<>>
              /\ h_dropped' = FALSE
              /\ UNCHANGED <<g_config, s_ring_storage, s_log_level,
                             s_crc_table_ready, s_crc16_table, s_prng_state,
                             s_stats, h_table_builds, h_crc_since_init>>
           \/ /\ s_ring' = r.ring
              /\ s_ring_storage' = p.storage
              /\ g_total_bytes_pushed' = p.n
              /\ g_total_bytes_popped' = r.n
              /\ s_crc16_table' = table
              /\ s_crc_table_ready' = TRUE
              /\ s_prng_state' =
                     rand32(rand32(srand32([hi |-> SelfTestSeedHi, lo |-> SelfTestSeedLo])))
              /\ s_stats' = StatsLoop(s_stats, 0, 10)
              /\ h_accepted' = SubSeq(SelfTestMsg, 1, p.n)
              /\ h_delivered' = r.out
              /\ h_dropped' = FALSE
              /\ h_table_builds' = BuildsAfter(h_table_builds, build)
              /\ h_crc_since_init' = TRUE
              /\ last' = [NoCall EXCEPT !.op = "module_self_test", !.built = build,
                                        !.ret = c, !.out = r.out,
                                        !.ok = ((p.n = Len(SelfTestMsg))
                                                /\ (r.n = Len(SelfTestMsg))
                                                /\ (c # 0))]
              /\ UNCHANGED <<g_config, s_log_level, trapped>>

(***************************************************************************)
(* crc16_ccitt, statement by statement.                                    *)
(***************************************************************************)
\* a wrong entry to crc16_ccitt: s_crc_table_ready is set before the table is
\* built
crc16_ccitt_enter_sets_flag(data) ==
    /\ ~trapped
    /\ crc_call.pc = "idle"
    /\ crc_call' = [pc |-> IF s_crc_table_ready THEN "loop" ELSE "build",
                    data |-> data, built |-> FALSE]
    /\ s_crc_table_ready' = TRUE
    /\ UNCHANGED <<g_config, g_total_bytes_pushed, g_total_bytes_popped,
                   s_ring_storage, s_ring, s_log_level, s_crc16_table,
                   s_prng_state, s_stats, trapped, histVars, last, producer,
                   consumer>>

\* the call, and the test of s_crc_table_ready
crc16_ccitt_enter(data) ==
    /\ ~trapped
    /\ crc_call.pc = "idle"
    /\ crc_call' = [pc |-> IF s_crc_table_ready THEN "loop" ELSE "build",
                    data |-> data, built |-> FALSE]
    /\ UNCHANGED <<progVars, trapped, histVars, last, producer, consumer>>

\* prv_crc16_build_table()
crc16_ccitt_build ==
    /\ crc_call.pc = "build"
    /\ s_crc16_table' = prv_crc16_build_table
    /\ h_table_builds' = BuildsAfter(h_table_builds, TRUE)
    /\ crc_call' = [crc_call EXCEPT !.pc = "flag", !.built = TRUE]
    /\ UNCHANGED <<g_config, g_total_bytes_pushed, g_total_bytes_popped,
                   s_ring_storage, s_ring, s_log_level, s_crc_table_ready,
                   s_prng_state, s_stats, trapped, h_accepted, h_delivered,
                   h_dropped, h_crc_since_init, last, producer, consumer>>

\* s_crc_table_ready = true
crc16_ccitt_flag ==
    /\ crc_call.pc = "flag"
    /\ s_crc_table_ready' = TRUE
    /\ crc_call' = [crc_call EXCEPT !.pc = "loop"]
    /\ UNCHANGED <<g_config, g_total_bytes_pushed, g_total_bytes_popped,
                   s_ring_storage, s_ring, s_log_level, s_crc16_table,
                   s_prng_state, s_stats, trapped, histVars, last, producer,
                   consumer>>

\* the loop over the input, and the return
crc16_ccitt_loop ==
    /\ crc_call.pc = "loop"
    /\ h_crc_since_init' = TRUE
    /\ last' = [NoCall EXCEPT !.op = "crc16_ccitt", !.bytes = crc_call.data,
                              !.len = Len(crc_call.data), !.built = crc_call.built,
                              !.ret = CrcLoop(s_crc16_table, crc_call.data, 1, CrcInit)]
    /\ crc_call' = CrcIdle
    /\ UNCHANGED <<progVars, trapped, h_accepted, h_delivered, h_dropped,
                   h_table_builds, producer, consumer>>

(***************************************************************************)
(* ring_push, statement by statement, in the producer thread.              *)
(***************************************************************************)
\* the call, and "if (!data || len == 0) return 0"
ring_push_enter(arg) ==
    /\ ~trapped
    /\ producer.pc = "idle"
    /\ IF arg.null \/ arg.len = 0
       THEN /\ last' = [NoCall EXCEPT !.op = "ring_push", !.null = arg.null,
                                      !.bytes = arg.bytes, !.len = arg.len]
            /\ UNCHANGED producer
       ELSE /\ producer' = [pc |-> "test", data |-> arg.bytes, len |-> arg.len,
                            pushed |-> 0]
            /\ UNCHANGED last
    /\ UNCHANGED <<progVars, trapped, histVars, consumer, crc_call>>

\* "while (pushed < len && !prv_ring_full())"
ring_push_test ==
    /\ ~trapped
    /\ producer.pc = "test"
    /\ \/ /\ producer.pushed < producer.len
          /\ s_ring.capacity = 0
          /\ Trap("ring_push")
          /\ UNCHANGED producer
       \/ /\ producer' =
                 [producer EXCEPT !.pc =
                     IF producer.pushed < producer.len /\ ~prv_ring_full(s_ring)
                     THEN "store" ELSE "count"]
          /\ UNCHANGED <<trapped, last>>
    /\ UNCHANGED <<progVars, histVars, consumer, crc_call>>

\* "s_ring_storage[s_ring.head] = p[pushed]"
ring_push_store ==
    /\ ~trapped
    /\ producer.pc = "store"
    /\ s_ring_storage' =
           [s_ring_storage EXCEPT ![s_ring.head] = producer.data[producer.pushed + 1]]
    /\ h_accepted' = Append(h_accepted, producer.data[producer.pushed + 1])
    /\ producer' = [producer EXCEPT !.pc = "advance"]
    /\ UNCHANGED <<g_config, g_total_bytes_pushed, g_total_bytes_popped, s_ring,
                   s_log_level, s_crc_table_ready, s_crc16_table, s_prng_state,
                   s_stats, trapped, h_delivered, h_dropped, h_table_builds,
                   h_crc_since_init, last, consumer, crc_call>>

\* "s_ring.head = (uint16_t)((s_ring.head + 1u) % s_ring.capacity)"
ring_push_advance ==
    /\ ~trapped
    /\ producer.pc = "advance"
    /\ \/ /\ s_ring.capacity = 0
          /\ Trap("ring_push")
          /\ UNCHANGED <<s_ring, producer>>
       \/ /\ s_ring' = [s_ring EXCEPT
                           !.head = Uint16(ModCapacity(s_ring.head + 1, s_ring.capacity))]
          /\ producer' = [producer EXCEPT !.pc = "incr"]
          /\ UNCHANGED <<trapped, last>>
    /\ UNCHANGED <<g_config, g_total_bytes_pushed, g_total_bytes_popped,
                   s_ring_storage, s_log_level, s_crc_table_ready, s_crc16_table,
                   s_prng_state, s_stats, histVars, consumer, crc_call>>

\* "++pushed"
ring_push_incr ==
    /\ ~trapped
    /\ producer.pc = "incr"
    /\ producer' = [producer EXCEPT !.pc = "test", !.pushed = @ + 1]
    /\ UNCHANGED <<progVars, trapped, histVars, last, consumer, crc_call>>

\* "g_total_bytes_pushed += pushed", the log line of a truncated push, and the
\* return
ring_push_count ==
    /\ ~trapped
    /\ producer.pc = "count"
    /\ g_total_bytes_pushed' = g_total_bytes_pushed + producer.pushed
    /\ last' = [NoCall EXCEPT !.op = "ring_push", !.bytes = producer.data,
                              !.len = producer.len, !.ret = producer.pushed]
    /\ producer' = ProducerIdle
    /\ UNCHANGED <<g_config, g_total_bytes_popped, s_ring_storage, s_ring,
                   s_log_level, s_crc_table_ready, s_crc16_table, s_prng_state,
                   s_stats, trapped, histVars, consumer, crc_call>>

(***************************************************************************)
(* ring_pop, statement by statement, in the consumer thread.               *)
(***************************************************************************)
\* the call, and "if (!out || len == 0) return 0"
ring_pop_enter(arg) ==
    /\ ~trapped
    /\ consumer.pc = "idle"
    /\ IF arg.null \/ arg.len = 0
       THEN /\ last' = [NoCall EXCEPT !.op = "ring_pop", !.null = arg.null,
                                      !.len = arg.len]
            /\ UNCHANGED consumer
       ELSE /\ consumer' = [pc |-> "test", len |-> arg.len, popped |-> 0,
                            out |-> <<>>]
            /\ UNCHANGED last
    /\ UNCHANGED <<progVars, trapped, histVars, producer, crc_call>>

\* a wrong loop test: "while (popped < len)"
ring_pop_test_unchecked ==
    /\ ~trapped
    /\ consumer.pc = "test"
    /\ consumer' = [consumer EXCEPT !.pc =
                       IF consumer.popped < consumer.len THEN "load" ELSE "count"]
    /\ UNCHANGED <<progVars, trapped, histVars, last, producer, crc_call>>

\* "while (popped < len && !prv_ring_empty())"
ring_pop_test ==
    /\ ~trapped
    /\ consumer.pc = "test"
    /\ consumer' = [consumer EXCEPT !.pc =
                       IF consumer.popped < consumer.len /\ ~prv_ring_empty(s_ring)
                       THEN "load" ELSE "count"]
    /\ UNCHANGED <<progVars, trapped, histVars, last, producer, crc_call>>

\* "p[popped] = s_ring_storage[s_ring.tail]"
ring_pop_load ==
    /\ ~trapped
    /\ consumer.pc = "load"
    /\ consumer' = [consumer EXCEPT !.pc = "advance",
                                    !.out = Append(@, s_ring_storage[s_ring.tail])]
    /\ h_delivered' = Append(h_delivered, s_ring_storage[s_ring.tail])
    /\ UNCHANGED <<progVars, trapped, h_accepted, h_dropped, h_table_builds,
                   h_crc_since_init, last, producer, crc_call>>

\* "s_ring.tail = (uint16_t)((s_ring.tail + 1u) % s_ring.capacity)"
ring_pop_advance ==
    /\ ~trapped
    /\ consumer.pc = "advance"
    /\ \/ /\ s_ring.capacity = 0
          /\ Trap("ring_pop")
          /\ UNCHANGED <<s_ring, consumer>>
       \/ /\ s_ring' = [s_ring EXCEPT
                           !.tail = Uint16(ModCapacity(s_ring.tail + 1, s_ring.capacity))]
          /\ consumer' = [consumer EXCEPT !.pc = "incr"]
          /\ UNCHANGED <<trapped, last>>
    /\ UNCHANGED <<g_config, g_total_bytes_pushed, g_total_bytes_popped,
                   s_ring_storage, s_log_level, s_crc_table_ready, s_crc16_table,
                   s_prng_state, s_stats, histVars, producer, crc_call>>

\* "++popped"
ring_pop_incr ==
    /\ ~trapped
    /\ consumer.pc = "incr"
    /\ consumer' = [consumer EXCEPT !.pc = "test", !.popped = @ + 1]
    /\ UNCHANGED <<progVars, trapped, histVars, last, producer, crc_call>>

\* "g_total_bytes_popped += popped", and the return
ring_pop_count ==
    /\ ~trapped
    /\ consumer.pc = "count"
    /\ g_total_bytes_popped' = g_total_bytes_popped + consumer.popped
    /\ last' = [NoCall EXCEPT !.op = "ring_pop", !.len = consumer.len,
                              !.ret = consumer.popped, !.out = consumer.out]
    /\ consumer' = ConsumerIdle
    /\ UNCHANGED <<g_config, g_total_bytes_pushed, s_ring_storage, s_ring,
                   s_log_level, s_crc_table_ready, s_crc16_table, s_prng_state,
                   s_stats, trapped, histVars, producer, crc_call>>

\* no thread is inside ring_push or ring_pop
RingIdle == producer.pc = "idle" /\ consumer.pc = "idle"

\* the value ring_push(arg) would leave in g_total_bytes_pushed
PushedAfter(arg) == g_total_bytes_pushed + PushResult(s_ring, s_ring_storage, arg).n

(***************************************************************************)
(* Spec: every function of the module, with single byte ring calls.        *)
(***************************************************************************)
Next ==
    \/ \E cfg \in ModuleCfgArgs : module_init(cfg) /\ UNCHANGED callVars
    \/ \E cfg \in ModuleCfgArgs : module_set_config(cfg) /\ UNCHANGED callVars
    \/ module_reset /\ UNCHANGED callVars
    \/ \E level \in SetLevels : log_set_level(level) /\ UNCHANGED callVars
    \/ \E arg \in ModulePushArgs :
          PushedAfter(arg) <= MaxModuleTotal /\ ring_push(arg) /\ UNCHANGED callVars
    \/ \E arg \in ModulePopArgs : ring_pop(arg) /\ UNCHANGED callVars
    \/ \E data \in ModuleCrcArgs : crc16_ccitt(data) /\ UNCHANGED callVars
    \/ s_stats.n + 10 <= MaxSamples /\ module_self_test /\ UNCHANGED callVars

Spec == Init /\ [][Next]_vars

(***************************************************************************)
(* SpecRing: the configuration calls, module_reset and the ring calls.     *)
(***************************************************************************)
NextRing ==
    \/ \E cfg \in Cfgs(CapChoices) : module_init(cfg) /\ UNCHANGED callVars
    \/ \E cfg \in Cfgs(CapChoices) : module_set_config(cfg) /\ UNCHANGED callVars
    \/ module_reset /\ UNCHANGED callVars
    \/ \E arg \in PushArgs : PushedAfter(arg) <= MaxTotal /\ ring_push(arg) /\ UNCHANGED callVars
    \/ \E arg \in PopArgs : ring_pop(arg) /\ UNCHANGED callVars

SpecRing == Init /\ [][NextRing]_vars

(***************************************************************************)
(* SpecCrc: the configuration calls, module_reset and crc16_ccitt.         *)
(***************************************************************************)
NextCrc ==
    \/ \E cfg \in CfgArgs : module_init(cfg) /\ UNCHANGED callVars
    \/ \E cfg \in CfgArgs : module_set_config(cfg) /\ UNCHANGED callVars
    \/ module_reset /\ UNCHANGED callVars
    \/ \E data \in CrcArgs : crc16_ccitt(data) /\ UNCHANGED callVars

SpecCrc == Init /\ [][NextCrc]_vars

(***************************************************************************)
(* SpecCrcSteps: module_init, module_set_config and module_reset between   *)
(* crc16_ccitt calls that run statement by statement.                      *)
(***************************************************************************)
NextCrcSteps ==
    \/ \E cfg \in CfgArgs :
          crc_call.pc = "idle" /\ module_init(cfg) /\ UNCHANGED callVars
    \/ \E cfg \in CfgArgs :
          crc_call.pc = "idle" /\ module_set_config(cfg) /\ UNCHANGED callVars
    \/ crc_call.pc = "idle" /\ module_reset /\ UNCHANGED callVars
    \/ \E data \in CrcArgs : crc16_ccitt_enter(data)
    \/ crc16_ccitt_build
    \/ crc16_ccitt_flag
    \/ crc16_ccitt_loop

SpecCrcSteps == Init /\ [][NextCrcSteps]_vars

(***************************************************************************)
(* SpecSpsc: one thread in ring_push and another in ring_pop, interleaved  *)
(* statement by statement; module_init and module_reset run only while     *)
(* neither thread is inside a call.                                        *)
(***************************************************************************)
NextSpsc ==
    \/ \E cfg \in Cfgs(SpscCapChoices) :
          RingIdle /\ module_init(cfg) /\ UNCHANGED callVars
    \/ RingIdle /\ module_reset /\ UNCHANGED callVars
    \/ \E arg \in SpscPushArgs :
          g_total_bytes_pushed + arg.len <= MaxTotal /\ ring_push_enter(arg)
    \/ ring_push_test
    \/ ring_push_store
    \/ ring_push_advance
    \/ ring_push_incr
    \/ ring_push_count
    \/ \E arg \in SpscPopArgs : ring_pop_enter(arg)
    \/ ring_pop_test
    \/ ring_pop_load
    \/ ring_pop_advance
    \/ ring_pop_incr
    \/ ring_pop_count

SpecSpsc == Init /\ [][NextSpsc]_vars

(***************************************************************************)
(* Definitions the properties below are stated with.                       *)
(***************************************************************************)
Min(a, b) == IF a <= b THEN a ELSE b

IsPrefix(p, q) == Len(p) <= Len(q) /\ SubSeq(q, 1, Len(p)) = p

ConfigureOps == {"module_init", "module_set_config"}

\* the bytes the ring holds, read from tail up to head
RECURSIVE RingContentsFrom(_, _, _)
RingContentsFrom(ring, storage, i) ==
    IF i = ring.head THEN <<>>
    ELSE <<storage[i]>> \o RingContentsFrom(ring, storage, ModCapacity(i + 1, ring.capacity))

RingContents(ring, storage) == RingContentsFrom(ring, storage, ring.tail)

\* (head - tail) mod capacity
IndexDistance(ring) == ((ring.head - ring.tail) + ring.capacity) % ring.capacity

\* CRC-16/CCITT-FALSE bit by bit: polynomial 0x1021, initial value 0xFFFF, no
\* reflection, no final XOR
\* the register after one shift: the polynomial is added when a 1 is shifted out
RefShift(crc) ==
    IF crc >= 32768 THEN Xor(2 * (crc - 32768), 4129) ELSE 2 * crc

\* the register after one message byte: the byte enters at the top, then 8 shifts
RefByte(crc, byte) ==
    LET c0 == Xor(crc, 256 * byte)
        c1 == RefShift(c0)
        c2 == RefShift(c1)
        c3 == RefShift(c2)
        c4 == RefShift(c3)
        c5 == RefShift(c4)
        c6 == RefShift(c5)
        c7 == RefShift(c6)
    IN  RefShift(c7)

\* (the test crc >= 0 makes TLC compute a register value before it goes on to
\* the next byte; every register value is a natural number)
RECURSIVE RefCrcFrom(_, _, _)
RefCrcFrom(data, i, crc) ==
    IF i <= Len(data) /\ crc >= 0
    THEN RefCrcFrom(data, i + 1, RefByte(crc, data[i]))
    ELSE crc

RefCrc(data) == RefCrcFrom(data, 1, 65535)

(***************************************************************************)
(* C1.  As claimed: whenever the buffer is configured,                     *)
(* g_total_bytes_pushed - g_total_bytes_popped equals the number of bytes  *)
(* queued, (head - tail) mod capacity.  A successful configure call made   *)
(* while bytes are queued empties the ring and leaves the counters, so     *)
(* this fails.                                                             *)
(***************************************************************************)
C1_ConservationAsClaimed ==
    s_ring.capacity # 0 =>
        g_total_bytes_pushed - g_total_bytes_popped = IndexDistance(s_ring)

\* C1, amended: as long as no successful configure call since the last
\* module_reset (or the start) was made while bytes were queued, the difference
\* of the counters is the number of bytes queued, and on a configured buffer
\* that number is (head - tail) mod capacity.
C1_ConservationUnlessDropped ==
    ~h_dropped =>
        /\ g_total_bytes_pushed - g_total_bytes_popped = Queued
        /\ s_ring.capacity # 0 => Queued = IndexDistance(s_ring)

\* pushes and pops have moved both counters and head has wrapped
C1_Witness ==
    /\ ~h_dropped
    /\ s_ring.capacity = 2
    /\ g_total_bytes_pushed = 2
    /\ g_total_bytes_popped >= 1
    /\ s_ring.head = 0
    /\ Queued = 1

(***************************************************************************)
(* C2.  A configure call with a configuration (module_init with a non-NULL *)
(* config, module_set_config) returns true iff the requested capacity is   *)
(* in 1..1024; on success the active capacity is the requested one and     *)
(* head = tail = 0, and a ring_pop that follows at once returns 0.         *)
(***************************************************************************)
C2_ConfigureStep ==
    /\ (last'.op \in ConfigureOps /\ ~last'.null) =>
          /\ last'.ok <=> (1 <= last'.cap /\ last'.cap <= StorageSize)
          /\ last'.ok => s_ring' = [head |-> 0, tail |-> 0, capacity |-> last'.cap]
    /\ (last.op \in ConfigureOps /\ last.ok /\ last'.op = "ring_pop") =>
          /\ last'.ret = 0
          /\ last'.out = <<>>

C2_Configure == [][C2_ConfigureStep]_vars

\* a pop asked for bytes right after a successful configure call that dropped a
\* queued byte (still in the storage at tail), and returned 0
C2_Witness ==
    /\ last.op = "ring_pop"
    /\ ~last.null
    /\ last.len > 0
    /\ last.ret = 0
    /\ h_accepted = <<>>
    /\ h_dropped
    /\ s_ring.capacity = StorageSize
    /\ s_ring.tail = 0
    /\ s_ring_storage[0] # 0

(***************************************************************************)
(* C3.  A configure call that is given a capacity of 0 or above 1024 (or,  *)
(* for module_set_config, a NULL pointer) returns false and leaves the     *)
(* whole module state as it was.                                           *)
(***************************************************************************)
C3_FailedConfigureStep ==
    (/\ last'.op \in ConfigureOps
     /\ \/ last'.op = "module_set_config" /\ last'.null
        \/ ~last'.null /\ (last'.cap = 0 \/ last'.cap > StorageSize))
    => (~last'.ok /\ UNCHANGED progVars)

C3_FailedConfigure == [][C3_FailedConfigureStep]_vars

\* a configure call failed on a module whose ring holds a byte, whose table is
\* built, and whose log level, PRNG state and accumulator are not the initial
\* ones
C3_Witness ==
    /\ last.op \in ConfigureOps
    /\ ~last.ok
    /\ s_ring.head # s_ring.tail
    /\ g_total_bytes_pushed > 0
    /\ s_crc_table_ready
    /\ s_stats.n > 0
    /\ s_log_level = LOG_ERROR
    /\ s_prng_state.hi # PrngInitialHi

(***************************************************************************)
(* C4.  On a configured buffer head = tail holds iff no byte is queued,    *)
(* prv_ring_full is true iff capacity - 1 bytes are queued, and never more *)
(* than capacity - 1 bytes are queued.                                     *)
(***************************************************************************)
C4_FullEmpty ==
    s_ring.capacity # 0 =>
        /\ (s_ring.head = s_ring.tail) <=> (Queued = 0)
        /\ prv_ring_full(s_ring) <=> (Queued = s_ring.capacity - 1)
        /\ Queued <= s_ring.capacity - 1

\* a full buffer whose head has wrapped
C4_Witness ==
    /\ s_ring.capacity = 2
    /\ prv_ring_full(s_ring)
    /\ Queued = 1
    /\ s_ring.head < s_ring.tail

(***************************************************************************)
(* C5.  The bytes ring_pop has returned since the last successful          *)
(* configure call or module_reset are a prefix of the bytes ring_push has  *)
(* accepted since then; and a push of n <= capacity - 1 bytes into an      *)
(* empty buffer followed at once by a pop of n returns n and those bytes.  *)
(***************************************************************************)
C5_FifoStep ==
    /\ IsPrefix(h_delivered', h_accepted')
    /\ (/\ last.op = "ring_push"
        /\ ~last.null
        /\ Queued = last.ret
        /\ last.len <= s_ring.capacity - 1
        /\ last'.op = "ring_pop"
        /\ ~last'.null
        /\ last'.len = last.len)
       => (last'.ret = last.len /\ last'.out = last.bytes)

C5_Fifo == [][C5_FifoStep]_vars

\* a pop returned the second byte of the stream, stored before head wrapped
\* and read before tail wrapped
C5_Witness ==
    /\ last.op = "ring_pop"
    /\ last.out = <<2>>
    /\ h_delivered = <<1, 2>>
    /\ s_ring.capacity = 2
    /\ s_ring.tail = 0

(***************************************************************************)
(* C6.  On a configured buffer that holds q bytes, ring_push of n bytes    *)
(* returns min(n, capacity - 1 - q), adds that to g_total_bytes_pushed,    *)
(* and appends exactly that many of the first input bytes, in order, to    *)
(* the bytes the ring holds; it moves no queued byte and not the tail.     *)
(***************************************************************************)
C6_TruncationStep ==
    (last'.op = "ring_push" /\ ~last'.null /\ s_ring.capacity # 0) =>
        LET m == Min(last'.len, s_ring.capacity - 1 - Queued)
        IN  /\ last'.ret = m
            /\ g_total_bytes_pushed' = g_total_bytes_pushed + m
            /\ RingContents(s_ring', s_ring_storage')
                   = RingContents(s_ring, s_ring_storage) \o SubSeq(last'.bytes, 1, m)
            /\ s_ring'.tail = s_ring.tail
            /\ s_ring'.capacity = s_ring.capacity

C6_Truncation == [][C6_TruncationStep]_vars

\* a push of two bytes behind a queued byte stored one and dropped the other
C6_Witness ==
    /\ last.op = "ring_push"
    /\ last.len = 2
    /\ last.ret = 1
    /\ Queued = 2
    /\ s_ring.capacity = 3
    /\ RingContents(s_ring, s_ring_storage)[2] = last.bytes[1]

(***************************************************************************)
(* C7.  As claimed: in every reachable state, the initial one included,    *)
(* the active capacity is in 1..1024.  The initialiser of s_ring sets the  *)
(* capacity to 0, so ring_push (and module_self_test) before the first     *)
(* successful configure call computes a remainder modulo 0.                *)
(***************************************************************************)
C7_CapacityInRange == 1 <= s_ring.capacity /\ s_ring.capacity <= StorageSize

(***************************************************************************)
(* C8.  As claimed: the CRC table is built exactly once.  module_init      *)
(* clears s_crc_table_ready, so the next crc16_ccitt call builds it again. *)
(***************************************************************************)
C8_BuiltOnceAsClaimed == h_table_builds <= 1

\* C8, amended: a crc16_ccitt call builds the table iff it is the first
\* crc16_ccitt call of the process or the first one since a successful
\* module_init; no other call writes the table.
C8_BuildStep ==
    /\ last'.op = "crc16_ccitt" => (last'.built <=> ~h_crc_since_init)
    /\ last'.op # "crc16_ccitt" =>
          (s_crc16_table' = s_crc16_table /\ h_table_builds' = h_table_builds)

C8_BuiltOncePerInit == [][C8_BuildStep]_vars

\* the table was built a second time, and module_set_config and module_reset
\* calls since then did not make the last crc16_ccitt call build it again
C8_Witness ==
    /\ h_table_builds = 2
    /\ last.op = "crc16_ccitt"
    /\ ~last.built
    /\ s_ring.capacity = 3

(***************************************************************************)
(* C9.  crc16_ccitt returns the bit by bit CRC-16/CCITT-FALSE of its       *)
(* input, whether the table was built by this call or an earlier one;      *)
(* the empty input gives 0xFFFF and "123456789" gives 0x29B1.              *)
(***************************************************************************)
C9_CrcMatchesReference ==
    last.op = "crc16_ccitt" =>
        /\ last.ret = RefCrc(last.bytes)
        /\ last.bytes = <<>> => last.ret = 65535
        /\ last.bytes = CheckString => last.ret = 10673

\* the check string was summed with a table rebuilt after module_init had
\* cleared the flag
C9_Witness ==
    /\ last.op = "crc16_ccitt"
    /\ last.bytes = CheckString
    /\ last.built
    /\ h_table_builds = 2

(***************************************************************************)
(* C10.  While the capacity is 1, every ring_push returns 0 and leaves     *)
(* head, tail and g_total_bytes_pushed, and every ring_pop returns 0.      *)
(***************************************************************************)
C10_CapacityOneStep ==
    s_ring.capacity = 1 =>
        /\ last'.op = "ring_push" =>
              /\ last'.ret = 0
              /\ s_ring' = s_ring
              /\ g_total_bytes_pushed' = g_total_bytes_pushed
        /\ last'.op = "ring_pop" => (last'.ret = 0 /\ s_ring' = s_ring)

C10_CapacityOne == [][C10_CapacityOneStep]_vars

\* a push of two bytes into a buffer of capacity 1 returned 0
C10_Witness ==
    /\ s_ring.capacity = 1
    /\ last.op = "ring_push"
    /\ ~last.null
    /\ last.len = 2
    /\ last.ret = 0


(***************************************************************************)
(* C11.  module_reset can be called in every state of a running process,   *)
(* and sets head = tail = 0 and both counters to 0; it leaves the active   *)
(* capacity, g_config, the log level, the CRC flag and table, the PRNG     *)
(* state and the statistics.                                               *)
(***************************************************************************)
C11_ResetStep ==
    last'.op = "module_reset" =>
        /\ s_ring'.head = 0
        /\ s_ring'.tail = 0
        /\ g_total_bytes_pushed' = 0
        /\ g_total_bytes_popped' = 0
        /\ s_ring'.capacity = s_ring.capacity
        /\ UNCHANGED <<g_config, s_log_level, s_crc_table_ready, s_crc16_table,
                       s_prng_state, s_stats>>

C11_Reset == [](~trapped => ENABLED module_reset) /\ [][C11_ResetStep]_vars

\* module_reset ran after a push, a pop, a first crc16_ccitt call,
\* log_set_level and the samples of module_self_test
C11_Witness ==
    /\ last.op = "module_reset"
    /\ s_ring.capacity = 3
    /\ s_ring_storage[0] = 1
    /\ s_crc_table_ready
    /\ s_log_level = LOG_ERROR
    /\ s_stats.n = 10

(***************************************************************************)
(* C12.  On a configured buffer that holds q bytes, ring_pop with a        *)
(* buffer and a length m returns min(m, q), moves tail by that many        *)
(* places modulo the capacity and adds as many to g_total_bytes_popped;    *)
(* head, the capacity, the storage and g_total_bytes_pushed stay.          *)
(***************************************************************************)
C12_PopStep ==
    (s_ring.capacity # 0 /\ last'.op = "ring_pop" /\ ~last'.null) =>
        LET n == Min(last'.len, IndexDistance(s_ring))
        IN  /\ last'.ret = n
            /\ Len(last'.out) = n
            /\ s_ring'.tail = (s_ring.tail + n) % s_ring.capacity
            /\ g_total_bytes_popped' = g_total_bytes_popped + n
            /\ s_ring'.head = s_ring.head
            /\ s_ring'.capacity = s_ring.capacity
            /\ UNCHANGED <<s_ring_storage, g_total_bytes_pushed>>

C12_Pop == [][C12_PopStep]_vars

\* a pop of up to two bytes got the one byte queued, and tail wrapped to 0
C12_Witness ==
    /\ last.op = "ring_pop"
    /\ ~last.null
    /\ last.len = 2
    /\ last.ret = 1
    /\ s_ring.capacity = 2
    /\ s_ring.tail = 0
    /\ g_total_bytes_popped = 2

(***************************************************************************)
(* C13.  Once a configure call has succeeded, head and tail are below the  *)
(* capacity and the capacity is at most 1024, so s_ring_storage[head] and  *)
(* s_ring_storage[tail] are cells of the array.                            *)
(***************************************************************************)
C13_IndicesInRange ==
    s_ring.capacity # 0 =>
        /\ s_ring.head \in 0..(s_ring.capacity - 1)
        /\ s_ring.tail \in 0..(s_ring.capacity - 1)
        /\ s_ring.capacity <= StorageSize
        /\ s_ring.head \in DOMAIN s_ring_storage
        /\ s_ring.tail \in DOMAIN s_ring_storage

\* a configure call to capacity 2 dropped queued bytes, one of which had been
\* stored at index 1
C13_Witness ==
    /\ last.op \in ConfigureOps
    /\ last.ok
    /\ h_dropped
    /\ s_ring.capacity = 2
    /\ s_ring_storage[1] # 0
    /\ g_total_bytes_pushed = 2
    /\ g_total_bytes_popped = 0


(***************************************************************************)
(* C14.  Whenever s_crc_table_ready is true, s_crc16_table is the          *)
(* CRC-16/CCITT table of the polynomial 0x1021 in all 256 entries.  The    *)
(* flag is set only by the statement that follows the table build, it is   *)
(* cleared only by a successful module_init, which leaves the table, and   *)
(* only the table build writes the table.                                  *)
(***************************************************************************)
\* entry i of the table: the register after byte i went through it from 0
RefTable == [i \in 0..255 |-> RefByte(0, i)]

C14_TableWhenReady ==
    s_crc_table_ready =>
        /\ s_crc16_table = RefTable
        /\ s_crc16_table[1] = 4129
        /\ s_crc16_table[128] = 37256
        /\ s_crc16_table[255] = 7920

C14_TableStep ==
    /\ s_crc16_table' # s_crc16_table => crc_call.pc = "build"
    /\ (~s_crc_table_ready /\ s_crc_table_ready') =>
          (crc_call.pc = "flag" /\ crc_call.built /\ s_crc16_table = RefTable)
    /\ (s_crc_table_ready /\ ~s_crc_table_ready') =>
          (last'.op = "module_init" /\ last'.ok /\ s_crc16_table' = s_crc16_table)
    /\ (crc_call' = crc_call /\ last'.op = "module_init" /\ last'.ok) =>
          (~s_crc_table_ready' /\ s_crc16_table' = s_crc16_table)

C14_LazyTable == []C14_TableWhenReady /\ [][C14_TableStep]_vars

\* the flag is set again after a module_init cleared it and the table was
\* built a second time
C14_Witness ==
    /\ s_crc_table_ready
    /\ crc_call.pc = "loop"
    /\ crc_call.built
    /\ h_table_builds = 2
    /\ last.op = "module_init"

(***************************************************************************)
(* C15.  With one thread in ring_push and one in ring_pop on a configured  *)
(* buffer, interleaved statement by statement: the bytes popped are a      *)
(* prefix of the bytes stored, the ring holds exactly the bytes stored and *)
(* not yet popped, in order, and never more than capacity - 1 of them.     *)
(***************************************************************************)
\* bytes stored whose head update has been done, and bytes read whose tail
\* update has been done
Published == Len(h_accepted) - (IF producer.pc = "advance" THEN 1 ELSE 0)
Consumed == Len(h_delivered) - (IF consumer.pc = "advance" THEN 1 ELSE 0)

C15_Spsc ==
    s_ring.capacity # 0 =>
        /\ IsPrefix(h_delivered, h_accepted)
        /\ Len(h_delivered) <= Published
        /\ Len(h_accepted) - Len(h_delivered) <= s_ring.capacity - 1
        /\ Published - Consumed <= s_ring.capacity - 1
        /\ IndexDistance(s_ring) = Published - Consumed
        /\ RingContents(s_ring, s_ring_storage)
              = SubSeq(h_accepted, Consumed + 1, Published)
        /\ Len(consumer.out) <= Len(h_delivered)
        /\ consumer.out = SubSeq(h_delivered,
                                 Len(h_delivered) - Len(consumer.out) + 1,
                                 Len(h_delivered))

\* the consumer freed the one slot of a full ring of capacity 2 while the
\* producer was inside ring_push, the producer then stored and published its
\* second byte at index 1, and head wrapped to 0
C15_Witness ==
    /\ s_ring.capacity = 2
    /\ producer.pc = "incr"
    /\ producer.pushed = 1
    /\ consumer.pc = "incr"
    /\ h_accepted = <<1, 2>>
    /\ h_delivered = <<1>>
    /\ s_ring.head = 0
    /\ s_ring.tail = 1

====
